---- MODULE Spec2Model ----
(***************************************************************************)
(* qr2scad: conversion of a QR code bitmap into an OpenSCAD script.        *)
(* The model follows src/qr2scad/qr2scad.py (Python 2: "/" on integers is  *)
(* floor division, "print" is a statement).  An image is a record          *)
(* [mode, w, h, px] whose px is the pixel data in raster order, as         *)
(* Image.getdata() returns it.                                             *)
(***************************************************************************)
EXTENDS Integers, Sequences, FiniteSets, TLC

VARIABLES
    pc,             \* position in main() / qr2scad()
    err,            \* the exception that ended the run, or "none"
    generate,       \* args.generate: "none" or a payload
    render,         \* args.render
    fs_in,          \* what is stored at the infile path
    fs_out,         \* what is stored at the outfile path
    in_saved,       \* main() has written the infile path
    handle,         \* state of the file object f of qr2scad()
    img,            \* local img of qr2scad()
    bbox,           \* local bbox
    qr_side,        \* local qr_side
    qr_pixel_size,  \* local qr_pixel_size
    new_size,       \* local new_size
    row,            \* loop variable of the emission loop
    result,         \* local result (the text under construction)
    ret,            \* value returned by qr2scad() to main()
    stdout          \* what main() printed of the result

vars == <<pc, err, generate, render, fs_in, fs_out, in_saved, handle,
          img, bbox, qr_side, qr_pixel_size, new_size, row, result, ret, stdout>>

----------------------------------------------------------------------------
(* Program constants *)

BLOCK_SIZE == 1

\* BLOCK_PADDING = 0.01, in hundredths
BLOCK_PADDING_C == 1

\* BLOCK_SIDE = BLOCK_SIZE - BLOCK_PADDING, in hundredths
BLOCK_SIDE_C == 100 * BLOCK_SIZE - BLOCK_PADDING_C

PDP_SIDE == 7

\* qrc.QRCode(version=1, box_size=10, border=4)
QR_VERSION == 1
QR_BOX_SIZE == 10
QR_BORDER == 4

(* Bounds of the model *)

\* pixels of the arbitrary black/white input bitmaps
MaxPixels == 4

\* side of the "run" bitmaps (a dark run followed by a light pixel)
MaxRunSide == 8

\* module count, pixels per module and border of the rendered symbols
MaxModules == 9
MaxScale == 2
MaxBorder == 1

\* pixels per module at which a generated symbol is rendered (box_size is
\* capped to keep the bitmaps small)
MaxBox == 2

\* Python's None, for a bounding box and for a return value
None == <<>>

\* list.index() found nothing
NotFound == -1

\* no image: the local img before Image.open()
NoImage == [mode |-> "none", w |-> 0, h |-> 0, px |-> <<>>]

\* a path of the file system: no file, an unreadable file, or a bitmap
MissingFile == [mode |-> "missing", w |-> 0, h |-> 0, px |-> <<>>]
CorruptFile == [mode |-> "corrupt", w |-> 0, h |-> 0, px |-> <<>>]

\* a text file: whether it exists and what it holds
TextFile(exists, text) == [exists |-> exists, text |-> text]

----------------------------------------------------------------------------
(* The image library (PIL), on images in raster order *)

\* pixel data given as a function on 1..n, as a sequence
Data(f) == SubSeq(f, 1, Len(f))

Min(S) == CHOOSE x \in S : \A y \in S : x <= y
Max(S) == CHOOSE x \in S : \A y \in S : x >= y

\* img_matrix[column, row] / getpixel
Pixel(im, x, y) == im.px[y * im.w + x + 1]

\* Image.convert('L'): a bilevel image (bits 0/1) becomes 0/255
ConvertL(im) ==
    [mode |-> "L", w |-> im.w, h |-> im.h,
     px |-> Data([i \in 1..Len(im.px) |-> IF im.mode = "1" THEN 255 * im.px[i] ELSE im.px[i]])]

\* ImageOps.invert: 255 - value per pixel
Invert(im) ==
    [mode |-> im.mode, w |-> im.w, h |-> im.h,
     px |-> Data([i \in 1..Len(im.px) |-> 255 - im.px[i]])]

\* Image.getbbox(): bounding box of the non-zero pixels, None when there are none
GetBBox_empty(im) ==
    LET cols == {x \in 0..(im.w - 1) : \E y \in 0..(im.h - 1) : Pixel(im, x, y) # 0}
        rows == {y \in 0..(im.h - 1) : \E x \in 0..(im.w - 1) : Pixel(im, x, y) # 0}
    IN  IF cols = {} THEN <<0, 0, 0, 0>>
        ELSE <<Min(cols), Min(rows), Max(cols) + 1, Max(rows) + 1>>

GetBBox(im) ==
    LET cols == {x \in 0..(im.w - 1) : \E y \in 0..(im.h - 1) : Pixel(im, x, y) # 0}
        rows == {y \in 0..(im.h - 1) : \E x \in 0..(im.w - 1) : Pixel(im, x, y) # 0}
    IN  IF cols = {} THEN None
        ELSE <<Min(cols), Min(rows), Max(cols) + 1, Max(rows) + 1>>

\* Image.crop(box): crop(None) returns a copy of the whole image
Crop(im, box) ==
    IF box = None THEN im
    ELSE LET w == box[3] - box[1]
             h == box[4] - box[2]
         IN  [mode |-> im.mode, w |-> w, h |-> h,
              px |-> Data([i \in 1..(w * h) |->
                        Pixel(im, box[1] + ((i - 1) % w), box[2] + ((i - 1) \div w))])]

\* Image.resize((n, n)) with the default NEAREST filter.  Depending on the
\* library version the sample of output pixel i is taken at the corner
\* (half = 0) or at the centre (half = 1) of its source area.
Resize(im, n, half) ==
    [mode |-> im.mode, w |-> n, h |-> n,
     px |-> Data([i \in 1..(n * n) |->
               Pixel(im, ((2 * ((i - 1) % n) + half) * im.w) \div (2 * n),
                         ((2 * ((i - 1) \div n) + half) * im.h) \div (2 * n))])]

\* list(img.getdata()).index(0): 0-based index of the first zero
IndexOfZero_len(px) ==
    IF \A i \in 1..Len(px) : px[i] # 0 THEN Len(px)
    ELSE (CHOOSE i \in 1..Len(px) : px[i] = 0 /\ \A j \in 1..(i - 1) : px[j] # 0) - 1

IndexOfZero(px) ==
    IF \A i \in 1..Len(px) : px[i] # 0 THEN NotFound
    ELSE (CHOOSE i \in 1..Len(px) : px[i] = 0 /\ \A j \in 1..(i - 1) : px[j] # 0) - 1

----------------------------------------------------------------------------
(* Text: '%s' and '%d' formatting of numbers, and the pieces of the script *)

DigitChars == <<"0", "1", "2", "3", "4", "5", "6", "7", "8", "9">>

RECURSIVE Digits(_)
Digits(n) == IF n < 10 THEN <<DigitChars[n + 1]>>
             ELSE Digits(n \div 10) \o <<DigitChars[(n % 10) + 1]>>

\* str(n) of an integer
IntToStr(n) == IF n < 0 THEN <<"-">> \o Digits(-n) ELSE Digits(n)

\* str(c / 100.0) of a number given in hundredths, 0 <= c < 1000
HundredthsToStr(c) ==
    Digits(c \div 100) \o <<".">> \o
    (IF c % 10 = 0 THEN Digits((c % 100) \div 10)
     ELSE <<DigitChars[((c % 100) \div 10) + 1], DigitChars[(c % 10) + 1]>>)

Piece(t, a) == [t |-> t, a |-> a]

DotOpen  == Piece("module _qr_code_dot() {\n", <<>>)
DotCube  == Piece("    cube([%s, %s, 1]);\n",
                  <<HundredthsToStr(BLOCK_SIDE_C), HundredthsToStr(BLOCK_SIDE_C)>>)
Close    == Piece("}\n", <<>>)
CodeOpen == Piece("module qr_code() {\n", <<>>)
Invoke   == Piece("\nqr_code();", <<>>)
SizeStmt(n) == Piece("qr_code_size = %d;", <<IntToStr(n)>>)
Translate(x, y) ==
    Piece("    translate([%s, %s, 0]) _qr_code_dot();\n", <<IntToStr(x), IntToStr(y)>>)

----------------------------------------------------------------------------
(* The QR encoder (qrcode library) called by main() *)

\* payloads of the generate option; fit=True raises the version for a long one
Payloads == {"Hi Mom", "a longer payload that needs version 2"}

QRVersion(payload) == IF payload = "Hi Mom" THEN QR_VERSION ELSE QR_VERSION + 1

\* modules per side of a symbol of the given version
QRModules(version) == 17 + 4 * version

\* the 7x7 position detection pattern with its corner at (r0, c0)
InPDP(r, c, r0, c0) ==
    /\ r \in r0..(r0 + PDP_SIDE - 1)
    /\ c \in c0..(c0 + PDP_SIDE - 1)
    /\ \/ r \in {r0, r0 + PDP_SIDE - 1}
       \/ c \in {c0, c0 + PDP_SIDE - 1}
       \/ (r \in (r0 + 2)..(r0 + 4) /\ c \in (c0 + 2)..(c0 + 4))

\* the PDP areas with their light separators
InPDPArea(r, c, n) ==
    \/ (r <= PDP_SIDE /\ c <= PDP_SIDE)
    \/ (r <= PDP_SIDE /\ c >= n - PDP_SIDE - 1)
    \/ (r >= n - PDP_SIDE - 1 /\ c <= PDP_SIDE)

\* qr.make(): the module matrix; TRUE is a dark module
QRDark(payload, r, c) ==
    LET n == QRModules(QRVersion(payload))
    IN  IF InPDPArea(r, c, n)
        THEN InPDP(r, c, 0, 0) \/ InPDP(r, c, 0, n - PDP_SIDE) \/ InPDP(r, c, n - PDP_SIDE, 0)
        ELSE IF r = PDP_SIDE - 1 \/ c = PDP_SIDE - 1
        THEN (r + c) % 2 = 0                                  \* timing patterns
        ELSE \/ (r = n - PDP_SIDE - 1 /\ c = PDP_SIDE + 1)    \* the dark module
             \/ (r * c + QRVersion(payload)) % 3 = 0          \* data and mask

\* qr.make_image(): a bilevel image, box pixels per module, a quiet zone of
\* border modules; bit 0 is black
RenderBits(dark, n, box, border) ==
    LET side == (n + 2 * border) * box
    IN  [mode |-> "1", w |-> side, h |-> side,
         px |-> Data([i \in 1..(side * side) |->
                   LET c == (((i - 1) % side) \div box) - border
                       r == (((i - 1) \div side) \div box) - border
                   IN  IF r \in 0..(n - 1) /\ c \in 0..(n - 1) /\ dark[r + 1][c + 1]
                       THEN 0 ELSE 1])]

\* the module matrix as rows of columns
QRMatrix(payload) ==
    LET n == QRModules(QRVersion(payload))
    IN  [r \in 1..n |-> [c \in 1..n |-> QRDark(payload, r - 1, c - 1)]]

QRImage(payload) ==
    LET box == IF QR_BOX_SIZE < MaxBox THEN QR_BOX_SIZE ELSE MaxBox
    IN  RenderBits(QRMatrix(payload), QRModules(QRVersion(payload)), box, QR_BORDER)

----------------------------------------------------------------------------
(* Input files *)

\* every black/white greyscale bitmap of at most MaxPixels pixels
SmallImages ==
    UNION {UNION {{[mode |-> "L", w |-> w, h |-> h, px |-> p] :
                     p \in [1..(w * h) -> {0, 255}]} :
                  h \in 1..(MaxPixels \div w)} : w \in 1..MaxPixels}

\* a square bitmap that starts with k black pixels, then one white pixel,
\* then a tail of white or of grey
RunImage(w, k, tail) ==
    [mode |-> "L", w |-> w, h |-> w,
     px |-> Data([i \in 1..(w * w) |->
               IF i - 1 < k THEN 0
               ELSE IF i - 1 = k THEN 255
               ELSE IF tail = "grey" THEN 100 ELSE 255])]

RunImages ==
    UNION {{RunImage(w, k, tail) : k \in 0..(w * w), tail \in {"white", "grey"}} :
           w \in 1..MaxRunSide}

\* module patterns whose top row starts with PDP_SIDE dark modules and a
\* light one
Patterns == {"top", "checker", "frame", "diagonal", "full"}

PatternDark(pat, n, r, c) ==
    \/ (r = 0 /\ c < PDP_SIDE)
    \/ (pat = "checker" /\ r >= 1 /\ (r + c) % 2 = 0)
    \/ (pat = "frame" /\ r >= 1 /\ (r = n - 1 \/ c = n - 1 \/ c = 0))
    \/ (pat = "diagonal" /\ r = c)
    \/ (pat = "full" /\ r >= 1)

SymbolImage(pat, n, m, b) ==
    RenderBits([r \in 1..n |-> [c \in 1..n |-> PatternDark(pat, n, r - 1, c - 1)]], n, m, b)

SymbolImages ==
    {SymbolImage(pat, n, m, b) :
        pat \in Patterns, n \in (PDP_SIDE + 1)..MaxModules,
        m \in 1..MaxScale, b \in 0..MaxBorder}

InputFiles == {MissingFile, CorruptFile} \cup SmallImages \cup RunImages \cup SymbolImages

----------------------------------------------------------------------------
(* qr2scad(): the emission loop *)

\* qr_side / 2 (Python 2 integer division)
HalfSide(side) == side \div 2

\* 'x': BLOCK_SIZE * column - qr_side / 2
PlaceX(column, side) == BLOCK_SIZE * column - HalfSide(side)

\* 'y': -BLOCK_SIZE * row + qr_side / 2
PlaceY_noflip(r, side) == BLOCK_SIZE * r + HalfSide(side)

PlaceY(r, side) == (-BLOCK_SIZE) * r + HalfSide(side)

\* if img_matrix[column, row] != 0
IsDark(im, column, r) == Pixel(im, column, r) # 0

\* the inner loop: for column in range(qr_side), from column on
RECURSIVE RowPlacements(_, _, _, _)
RowPlacements(im, side, r, column) ==
    IF column >= side THEN <<>>
    ELSE (IF IsDark(im, column, r)
          THEN <<Translate(PlaceX(column, side), PlaceY(r, side))>>
          ELSE <<>>) \o RowPlacements(im, side, r, column + 1)

\* result up to 'module qr_code() {'
HeaderText == <<DotOpen, DotCube, Close, CodeOpen>>

\* '}', the size constant and, if render, the invocation
FooterText_always(side, rend) == <<Close, SizeStmt(side), Invoke>>

FooterText(side, rend) ==
    <<Close, SizeStmt(side)>> \o (IF rend THEN <<Invoke>> ELSE <<>>)

----------------------------------------------------------------------------
(* The state machine *)

\* assert width == height
IsSquare_off(im) == TRUE

IsSquare(im) == im.w = im.h

\* list(img.getdata()).index(0) / PDP_SIDE, for an index that was found
ModuleSize_sep(index) == index \div (PDP_SIDE + 1)

ModuleSize(index) == index \div PDP_SIDE

\* what a destination file holds before the run, when it exists
OldText == Piece("// an older script\n", <<>>)

Init ==
    /\ pc = "main"
    /\ err = "none"
    /\ render \in BOOLEAN
    /\ \/ generate = "none" /\ fs_in \in InputFiles
       \/ generate \in Payloads /\ fs_in \in {MissingFile, CorruptFile}
    /\ fs_out \in {TextFile(FALSE, <<>>), TextFile(TRUE, <<OldText>>)}
    /\ in_saved = FALSE
    /\ handle = "none"
    /\ img = NoImage
    /\ bbox = None
    /\ qr_side = 0
    /\ qr_pixel_size = 0
    /\ new_size = 0
    /\ row = 0
    /\ result = <<>>
    /\ ret = None
    /\ stdout = <<>>

\* the messages of main()
GeneratingMsg == Piece("Generating QR Code for <{0}>. Saving it to {1}.\n", <<>>)
UsingMsg == Piece("Using {0} to generate {1}.\n", <<>>)

Raise(e) == pc' = "raised" /\ err' = e

\* main(), lines 134-147, with the generate option
Generate_nosave ==
    /\ pc = "main"
    /\ generate # "none"
    /\ stdout' = stdout \o <<GeneratingMsg, UsingMsg>>
    /\ pc' = "open"
    /\ UNCHANGED <<err, generate, render, fs_in, fs_out, in_saved, handle, img, bbox,
                   qr_side, qr_pixel_size, new_size, row, result, ret>>

Generate ==
    /\ pc = "main"
    /\ generate # "none"
    /\ \/ /\ fs_in' = QRImage(generate)
          /\ in_saved' = TRUE
          /\ stdout' = stdout \o <<GeneratingMsg, UsingMsg>>
          /\ pc' = "open"
          /\ err' = err
       \/ /\ Raise("IOError:save")
          /\ UNCHANGED <<fs_in, in_saved, stdout>>
    /\ UNCHANGED <<generate, render, fs_out, handle, img, bbox, qr_side,
                   qr_pixel_size, new_size, row, result, ret>>

\* main(), lines 134-147, without the generate option
UseInfile ==
    /\ pc = "main"
    /\ generate = "none"
    /\ stdout' = stdout \o <<UsingMsg>>
    /\ pc' = "open"
    /\ UNCHANGED <<err, generate, render, fs_in, fs_out, in_saved, handle,
                   img, bbox, qr_side, qr_pixel_size, new_size, row, result, ret>>

\* img = Image.open(infile)
OpenImage_early ==
    /\ pc = "open"
    /\ handle' = "open"
    /\ fs_out' = TextFile(TRUE, <<>>)
    /\ IF fs_in \in {MissingFile, CorruptFile}
       THEN Raise("IOError:decode") /\ img' = img
       ELSE pc' = "convert" /\ err' = err /\ img' = fs_in
    /\ UNCHANGED <<generate, render, fs_in, in_saved,
                   bbox, qr_side, qr_pixel_size, new_size, row, result, ret, stdout>>

OpenImage ==
    /\ pc = "open"
    /\ IF fs_in \in {MissingFile, CorruptFile}
       THEN Raise("IOError:decode") /\ img' = img
       ELSE pc' = "convert" /\ err' = err /\ img' = fs_in
    /\ UNCHANGED <<generate, render, fs_in, fs_out, in_saved, handle,
                   bbox, qr_side, qr_pixel_size, new_size, row, result, ret, stdout>>

\* if img.mode != 'L': img = img.convert('L')
Convert ==
    /\ pc = "convert"
    /\ img' = IF img.mode # "L" THEN ConvertL(img) ELSE img
    /\ pc' = "invert"
    /\ UNCHANGED <<err, generate, render, fs_in, fs_out, in_saved, handle,
                   bbox, qr_side, qr_pixel_size, new_size, row, result, ret, stdout>>

\* img = ImageOps.invert(img)
InvertImage ==
    /\ pc = "invert"
    /\ img' = Invert(img)
    /\ pc' = "bbox"
    /\ UNCHANGED <<err, generate, render, fs_in, fs_out, in_saved, handle,
                   bbox, qr_side, qr_pixel_size, new_size, row, result, ret, stdout>>

\* bbox = img.getbbox()
BoundingBox ==
    /\ pc = "bbox"
    /\ bbox' = GetBBox(img)
    /\ pc' = "crop"
    /\ UNCHANGED <<err, generate, render, fs_in, fs_out, in_saved, handle,
                   img, qr_side, qr_pixel_size, new_size, row, result, ret, stdout>>

\* img = img.crop(bbox)
CropImage ==
    /\ pc = "crop"
    /\ img' = Crop(img, bbox)
    /\ pc' = "square"
    /\ UNCHANGED <<err, generate, render, fs_in, fs_out, in_saved, handle,
                   bbox, qr_side, qr_pixel_size, new_size, row, result, ret, stdout>>

\* width, height = img.size; assert width == height; qr_side = width
AssertSquare ==
    /\ pc = "square"
    /\ IF IsSquare(img)
       THEN pc' = "pixel_size" /\ err' = err /\ qr_side' = img.w
       ELSE Raise("AssertionError") /\ qr_side' = qr_side
    /\ UNCHANGED <<generate, render, fs_in, fs_out, in_saved, handle,
                   img, bbox, qr_pixel_size, new_size, row, result, ret, stdout>>

\* qr_pixel_size = list(img.getdata()).index(0) / PDP_SIDE
PixelSize ==
    /\ pc = "pixel_size"
    /\ IF IndexOfZero(img.px) = NotFound
       THEN Raise("ValueError:index") /\ qr_pixel_size' = qr_pixel_size
       ELSE /\ pc' = "new_size"
            /\ err' = err
            /\ qr_pixel_size' = ModuleSize(IndexOfZero(img.px))
    /\ UNCHANGED <<generate, render, fs_in, fs_out, in_saved, handle,
                   img, bbox, qr_side, new_size, row, result, ret, stdout>>

\* new_size = qr_side / qr_pixel_size
NewSize ==
    /\ pc = "new_size"
    /\ IF qr_pixel_size = 0
       THEN Raise("ZeroDivisionError") /\ new_size' = new_size
       ELSE pc' = "resize" /\ err' = err /\ new_size' = qr_side \div qr_pixel_size
    /\ UNCHANGED <<generate, render, fs_in, fs_out, in_saved, handle,
                   img, bbox, qr_side, qr_pixel_size, row, result, ret, stdout>>

\* img = img.resize((new_size, new_size)); qr_side = new_size.  A size of 0
\* is rejected by some versions of the library and gives an empty image in
\* others.
ResizeImage ==
    /\ pc = "resize"
    /\ \/ /\ \E half \in {0, 1} : img' = Resize(img, new_size, half)
          /\ qr_side' = new_size
          /\ pc' = "header"
          /\ err' = err
       \/ /\ new_size = 0
          /\ Raise("ValueError:resize")
          /\ UNCHANGED <<img, qr_side>>
    /\ UNCHANGED <<generate, render, fs_in, fs_out, in_saved, handle,
                   bbox, qr_pixel_size, new_size, row, result, ret, stdout>>

\* lines 95-101: the two module headers
Header ==
    /\ pc = "header"
    /\ result' = HeaderText
    /\ row' = 0
    /\ pc' = "emit"
    /\ UNCHANGED <<err, generate, render, fs_in, fs_out, in_saved, handle,
                   img, bbox, qr_side, qr_pixel_size, new_size, ret, stdout>>

\* one iteration of: for row in range(qr_side)
EmitRow ==
    /\ pc = "emit"
    /\ row < qr_side
    /\ result' = result \o RowPlacements(img, qr_side, row, 0)
    /\ row' = row + 1
    /\ UNCHANGED <<pc, err, generate, render, fs_in, fs_out, in_saved,
                   handle, img, bbox, qr_side, qr_pixel_size, new_size, ret, stdout>>

\* lines 110-113, after the loop
Footer ==
    /\ pc = "emit"
    /\ row >= qr_side
    /\ result' = result \o FooterText(qr_side, render)
    /\ pc' = "fopen"
    /\ UNCHANGED <<err, generate, render, fs_in, fs_out, in_saved, handle,
                   img, bbox, qr_side, qr_pixel_size, new_size, row, ret, stdout>>

\* f = open(outfile, "w+"): creates or truncates the file
OpenOut ==
    /\ pc = "fopen"
    /\ \/ handle' = "open" /\ fs_out' = TextFile(TRUE, <<>>) /\ pc' = "fwrite" /\ err' = err
       \/ Raise("IOError:open") /\ UNCHANGED <<handle, fs_out>>
    /\ UNCHANGED <<generate, render, fs_in, in_saved, img, bbox, qr_side,
                   qr_pixel_size, new_size, row, result, ret, stdout>>

\* f.write(result); a failing write leaves a part of the text behind
WriteOut ==
    /\ pc = "fwrite"
    /\ \/ fs_out' = TextFile(TRUE, result) /\ pc' = "fclose" /\ err' = err
       \/ /\ \E n \in {0, Len(result) \div 2} :
                fs_out' = TextFile(TRUE, SubSeq(result, 1, n))
          /\ Raise("IOError:write")
    /\ UNCHANGED <<generate, render, fs_in, in_saved, handle, img, bbox,
                   qr_side, qr_pixel_size, new_size, row, result, ret, stdout>>

\* f.close()
CloseOut ==
    /\ pc = "fclose"
    /\ handle' = "closed"
    /\ pc' = "return"
    /\ UNCHANGED <<err, generate, render, fs_in, fs_out, in_saved, img,
                   bbox, qr_side, qr_pixel_size, new_size, row, result, ret, stdout>>

\* return result
Return ==
    /\ pc = "return"
    /\ ret' = result
    /\ pc' = "print"
    /\ UNCHANGED <<err, generate, render, fs_in, fs_out, in_saved, handle,
                   img, bbox, qr_side, qr_pixel_size, new_size, row, result, stdout>>

\* main(), lines 149-150: if(args.verbosity): print result
PrintResult ==
    /\ pc = "print"
    /\ \E verbosity \in BOOLEAN :
          stdout' = IF verbosity THEN stdout \o ret ELSE stdout
    /\ pc' = "done"
    /\ UNCHANGED <<err, generate, render, fs_in, fs_out, in_saved, handle,
                   img, bbox, qr_side, qr_pixel_size, new_size, row, result, ret>>

Next ==
    \/ Generate \/ UseInfile \/ OpenImage \/ Convert \/ InvertImage \/ BoundingBox
    \/ CropImage \/ AssertSquare \/ PixelSize \/ NewSize \/ ResizeImage \/ Header
    \/ EmitRow \/ Footer \/ OpenOut \/ WriteOut \/ CloseOut \/ Return \/ PrintResult

Spec == Init /\ [][Next]_vars

----------------------------------------------------------------------------
(* Reading the script back *)

DigitValue(ch) == CHOOSE d \in 0..9 : DigitChars[d + 1] = ch

RECURSIVE DigitsToNat(_)
DigitsToNat(str) ==
    IF str = <<>> THEN 0
    ELSE 10 * DigitsToNat(SubSeq(str, 1, Len(str) - 1)) + DigitValue(str[Len(str)])

StrToInt(str) == IF str[1] = "-" THEN -DigitsToNat(Tail(str)) ELSE DigitsToNat(str)

IsTranslate(p) == p.t = Translate(0, 0).t

\* the <<x, y>> of the translate statements of a text
PlacementsOf(text) ==
    {<<StrToInt(text[k].a[1]), StrToInt(text[k].a[2])>> :
        k \in {j \in 1..Len(text) : IsTranslate(text[j])}}

NumPlacements(text) == Cardinality({j \in 1..Len(text) : IsTranslate(text[j])})

\* the <<row, column>> cells of the first rows rows whose resampled pixel is non-zero
DarkCells(im, rows) ==
    {cell \in (0..(rows - 1)) \X (0..(im.w - 1)) : im.px[cell[1] * im.w + cell[2] + 1] # 0}

\* the text of the script has been started
Emitting == result # <<>>

----------------------------------------------------------------------------
(* Claims *)

\* C1: round trip between the module grid and the emitted geometry.  Once the
\* emission loop has handled the first `row` rows of a grid of side N =
\* qr_side, mapping every emitted translate([x, y, 0]) back through
\* row = (N/2 - y) / BLOCK_SIZE, column = (x + N/2) / BLOCK_SIZE (N/2 as the
\* program evaluates it) gives exactly the cells of those rows whose
\* resampled pixel is non-zero, and no two cells share an (x, y).
C1_RoundTrip ==
    Emitting =>
        LET half == qr_side \div 2
            back == {<<(half - p[2]) \div BLOCK_SIZE, (p[1] + half) \div BLOCK_SIZE>> :
                        p \in PlacementsOf(result)}
        IN  /\ \A p \in PlacementsOf(result) :
                  (half - p[2]) % BLOCK_SIZE = 0 /\ (p[1] + half) % BLOCK_SIZE = 0
            /\ back = DarkCells(img, row)
            /\ NumPlacements(result) = Cardinality(DarkCells(img, row))
            /\ Cardinality(PlacementsOf(result)) = NumPlacements(result)

\* C1 witness: a finished run on a 3 x 3 grid with dark and light cells
C1_Witness ==
    /\ pc = "done"
    /\ qr_side = 3
    /\ NumPlacements(ret) \in 1..8
    /\ Cardinality(DarkCells(img, 3)) = NumPlacements(ret)

\* C8: every dark cell (row, column) of a grid of side N is placed at
\* x = BLOCK_SIZE * column - N/2, y = -BLOCK_SIZE * row + N/2 with N/2 exactly
\* half the grid extent (stated on doubled coordinates), so that the full
\* grid is centred on the origin.
C8_ExactHalf ==
    Emitting =>
        {<<2 * p[1], 2 * p[2]>> : p \in PlacementsOf(result)} =
        {<<2 * BLOCK_SIZE * cell[2] - qr_side, (-2) * BLOCK_SIZE * cell[1] + qr_side>> :
            cell \in DarkCells(img, row)}

\* the bitmap at the infile path, seen as the program's input
IsBitmap(f) == f.mode \in {"L", "1"}
WhiteOf(f) == IF f.mode = "1" THEN 1 ELSE 255
BlankInput == IsBitmap(fs_in) /\ \A i \in 1..Len(fs_in.px) : fs_in.px[i] = WhiteOf(fs_in)

\* the destination as it was before the run
Untouched(f) == f \in {TextFile(FALSE, <<>>), TextFile(TRUE, <<OldText>>)}

BeforeCrop == {"main", "open", "convert", "invert", "bbox", "crop"}

\* C2: module-grid detection on a clean bitmap.  When the input is an N x N
\* module symbol drawn with m x m pixels per module, without border (its
\* foreground reaches all four edges), whose top row starts with exactly
\* PDP_SIDE dark modules and then a light one, the module size is m, the
\* module count is N, the script says qr_code_size = N and holds as many
\* placements as the symbol has dark modules.
CleanSymbol(f, n, m) ==
    /\ IsBitmap(f)
    /\ n > PDP_SIDE /\ m >= 1
    /\ f.w = n * m /\ f.h = n * m
    /\ \A i \in 1..Len(f.px) :
          f.px[i] = f.px[(((i - 1) \div f.w) \div m) * m * f.w + (((i - 1) % f.w) \div m) * m + 1]
    /\ \A c \in 0..(PDP_SIDE - 1) : f.px[c * m + 1] # WhiteOf(f)
    /\ f.px[PDP_SIDE * m + 1] = WhiteOf(f)
    /\ \E i \in 1..f.w : f.px[(i - 1) * f.w + 1] # WhiteOf(f)
    /\ \E i \in 1..f.w : f.px[i * f.w] # WhiteOf(f)
    /\ \E i \in 1..f.w : f.px[(f.h - 1) * f.w + i] # WhiteOf(f)

DarkModules(f, n, m) ==
    {cell \in (0..(n - 1)) \X (0..(n - 1)) :
        f.px[cell[1] * m * f.w + cell[2] * m + 1] # WhiteOf(f)}

C2_CleanBitmap ==
    \A m \in 1..fs_in.w :
        (generate = "none" /\ fs_in.w % m = 0 /\ CleanSymbol(fs_in, fs_in.w \div m, m)) =>
            LET n == fs_in.w \div m
            IN  /\ pc = "raised" => err \in {"IOError:open", "IOError:write"}
                /\ pc \notin (BeforeCrop \cup {"square", "pixel_size"}) => qr_pixel_size = m
                /\ pc \notin (BeforeCrop \cup {"square", "pixel_size", "new_size"}) =>
                      new_size = n
                /\ pc \notin (BeforeCrop \cup {"square", "pixel_size", "new_size", "resize",
                                              "header", "emit"}) =>
                      /\ \E k \in 1..Len(result) :
                            /\ result[k].t = SizeStmt(0).t
                            /\ StrToInt(result[k].a[1]) = n
                      /\ NumPlacements(result) = Cardinality(DarkModules(fs_in, n, m))

\* C2 witness: a finished run on a 9 x 9 module symbol with 2 x 2 pixel modules
C2_Witness ==
    /\ pc = "done"
    /\ generate = "none"
    /\ CleanSymbol(fs_in, 9, 2)
    /\ qr_side = 9
    /\ NumPlacements(ret) > PDP_SIDE

C4_NonSquare ==
    /\ (pc \notin BeforeCrop /\ img.w # img.h) =>
          /\ pc = "square" \/ (pc = "raised" /\ err = "AssertionError")
          /\ bbox # None => (img.w = bbox[3] - bbox[1] /\ img.h = bbox[4] - bbox[2])
          /\ qr_side = 0 /\ qr_pixel_size = 0 /\ new_size = 0
          /\ result = <<>> /\ handle = "none"
    /\ (pc = "raised" /\ err = "AssertionError") => img.w # img.h

\* C4 witness: a non-blank input whose foreground is not square has failed
C4_Witness ==
    /\ pc = "raised"
    /\ err = "AssertionError"
    /\ bbox # None
    /\ img.w # img.h
    /\ img.w > 1 /\ img.h > 1

\* crops for which no module size can be derived
Saturated(px) == px # <<>> /\ \A i \in 1..Len(px) : px[i] # 0
ZeroBeforePDP(px) ==
    \E i \in 1..(IF Len(px) < PDP_SIDE THEN Len(px) ELSE PDP_SIDE) : px[i] = 0

\* the run failed in module-size detection or later, before any text was made
FailedAfterSquare ==
    /\ pc = "raised"
    /\ err \notin {"IOError:decode", "IOError:save", "AssertionError"}
    /\ result = <<>>

\* C5 as stated: a crop whose first zero pixel lies before index PDP_SIDE,
\* and a crop without any zero pixel, both fail with the division error
\* of the module-count computation and with nothing else.
C5_DivisionError ==
    /\ (FailedAfterSquare /\ (ZeroBeforePDP(img.px) \/ Saturated(img.px))) =>
          err = "ZeroDivisionError"
    /\ pc = "resize" => (~ZeroBeforePDP(img.px) /\ ~Saturated(img.px))

\* C5 as amended: a square crop whose first zero pixel lies before index PDP_SIDE
\* (a blank crop included) fails with the division error of the module-count
\* computation; a crop without any zero pixel fails earlier, with the
\* ValueError of the search for the first zero pixel; neither reaches the
\* resampling.
C5_ModuleSizeFailure ==
    /\ (FailedAfterSquare /\ ZeroBeforePDP(img.px)) => err = "ZeroDivisionError"
    /\ (FailedAfterSquare /\ Saturated(img.px)) => err = "ValueError:index"
    /\ (pc = "raised" /\ err = "ZeroDivisionError") => ZeroBeforePDP(img.px)
    /\ (pc = "raised" /\ err = "ValueError:index") => Saturated(img.px)
    /\ pc = "new_size" => ~Saturated(img.px)
    /\ pc = "resize" => (~ZeroBeforePDP(img.px) /\ ~Saturated(img.px))

\* C5 witness: a saturated square crop of several pixels has failed in the search
C5_Witness ==
    /\ pc = "raised"
    /\ err = "ValueError:index"
    /\ Saturated(img.px)
    /\ img.w = img.h /\ img.w > 1

\* C6: a run that ends in a decode, non-square or module-size failure (or in
\* a failed resampling) leaves the destination as it was and returns no text;
\* the destination is opened only once the whole text has been built.
C6_AllOrNothing ==
    /\ (pc = "raised" /\ err \in {"IOError:decode", "AssertionError", "ValueError:index",
                                  "ZeroDivisionError", "ValueError:resize"}) =>
          (Untouched(fs_out) /\ handle = "none" /\ ret = None)
    /\ (handle # "none" \/ ~Untouched(fs_out)) =>
          /\ row = qr_side
          /\ Len(result) >= 6
          /\ SubSeq(result, 1, 4) = <<DotOpen, DotCube, Close, CodeOpen>>
          /\ result[Len(result)] \in {Invoke, SizeStmt(qr_side)}
          /\ pc \notin BeforeCrop \cup {"square", "pixel_size", "new_size", "resize",
                                       "header", "emit", "fopen"}

\* C6 witness: decoding failed and the older script is still at the destination
C6_Witness ==
    /\ pc = "raised"
    /\ err = "IOError:decode"
    /\ fs_in = CorruptFile
    /\ fs_out = TextFile(TRUE, <<OldText>>)

\* C7: the text of a successful call is one _qr_code_dot definition, one
\* qr_code definition holding only the placements, one qr_code_size
\* assignment, and the qr_code() invocation exactly when render is set; the
\* returned text is the content of the destination.
C7_OutputShape ==
    pc \in {"print", "done"} =>
        LET n == Len(ret)
            tail == IF render THEN 3 ELSE 2
        IN  /\ n >= 4 + tail
            /\ ret[1] = DotOpen /\ ret[2] = DotCube /\ ret[3] = Close /\ ret[4] = CodeOpen
            /\ \A k \in 5..(n - tail) : IsTranslate(ret[k])
            /\ ret[n - tail + 1] = Close
            /\ ret[n - tail + 2].t = SizeStmt(0).t
            /\ render => ret[n] = Invoke
            /\ fs_out = TextFile(TRUE, ret)

\* C7 witness: a finished run with the render flag and several placements
C7_Witness ==
    /\ pc = "done"
    /\ render
    /\ ret[Len(ret)] = Invoke
    /\ NumPlacements(ret) >= 2
    /\ fs_out.text = ret

\* C9: whenever the destination handle was acquired it is released before
\* the call ends, also when writing the text fails.
C9_HandleReleased == pc \in {"print", "done", "raised"} => handle # "open"

\* C10: in generate mode the bitmap is saved to the infile path before
\* qr2scad() opens it, and a run that no file-system fault of the save or of
\* the destination interrupts ends with a non-empty script at the outfile
\* path; without the generate option the infile path is never written.
C10_Positions ==
    /\ (generate # "none" /\ pc # "main" /\ ~(pc = "raised" /\ err = "IOError:save")) =>
          (in_saved /\ IsBitmap(fs_in))
    /\ (generate # "none" /\ img # NoImage) => in_saved
    /\ (generate # "none" /\ pc = "raised") =>
          err \in {"IOError:save", "IOError:open", "IOError:write"}
    /\ (generate # "none" /\ pc = "done") =>
          (fs_out.exists /\ fs_out.text # <<>> /\ fs_out.text = ret /\ NumPlacements(ret) > 0)
    /\ generate = "none" => ~in_saved

C10_GenerateOrder ==
    /\ []C10_Positions
    /\ [][generate = "none" => fs_in' = fs_in]_vars

\* C10 witness: a generate run for "Hi Mom" has ended with its script written
C10_Witness ==
    /\ pc = "done"
    /\ generate = "Hi Mom"
    /\ in_saved
    /\ qr_side = QRModules(QR_VERSION)
    /\ fs_out.text = ret

====
